---- MODULE Spec2Model ----
(***************************************************************************)
(* Model of the agent-browser CLI client: the daemon supervisor, the       *)
(* liveness probes, the endpoint resolver, the command protocol client     *)
(* (cli/src/connection.rs) and the session registry scan (cli/src/main.rs).*)
(*                                                                         *)
(* Strings are sequences of characters; a character is a token (a TLA+     *)
(* string) whose Unicode scalar value is given by Ord.  32-bit integers    *)
(* that may wrap are pairs <<hi, lo>> of 16-bit halves, so that every      *)
(* intermediate value stays inside the range of the model checker's        *)
(* integers.                                                               *)
(***************************************************************************)
EXTENDS Integers, Sequences, FiniteSets, TLC

(***************************************************************************)
(* Characters and strings                                                  *)
(***************************************************************************)

\* Unicode scalar value of each character used in the model (`c as i32`).
Ord ==
  [c \in {"a", "b", "p", "r", "x", "0", "1", "2", "3", "4", "5", "6", "7", "8", "9",
          "+", "-", ".", " ", "\n", "U3FFE", "U3FFF", "U10C41", "U10FFFF"} |->
     CASE c = "a" -> 97 [] c = "b" -> 98 [] c = "p" -> 112
       [] c = "r" -> 114 [] c = "x" -> 120
       [] c = "0" -> 48 [] c = "1" -> 49 [] c = "2" -> 50 [] c = "3" -> 51
       [] c = "4" -> 52 [] c = "5" -> 53 [] c = "6" -> 54 [] c = "7" -> 55
       [] c = "8" -> 56 [] c = "9" -> 57
       [] c = "+" -> 43 [] c = "-" -> 45 [] c = "." -> 46
       [] c = " " -> 32 [] c = "\n" -> 10
       [] c = "U3FFE" -> 16382 [] c = "U3FFF" -> 16383
       [] c = "U10C41" -> 68673 [] c = "U10FFFF" -> 1114111]

Digits == {"0", "1", "2", "3", "4", "5", "6", "7", "8", "9"}

\* char::to_digit(10) for an ASCII digit.
DigitVal(c) == Ord[c] - 48

\* The characters str::trim removes (those of them the model uses).
WhiteSpace == {" ", "\n"}

\* s[i..j], empty when j < i.
Slice(s, i, j) == IF j < i THEN <<>> ELSE SubSeq(s, i, j)

StartsWith(s, p) == Len(s) >= Len(p) /\ SubSeq(s, 1, Len(p)) = p

EndsWith(s, p) ==
  Len(s) >= Len(p) /\ SubSeq(s, Len(s) - Len(p) + 1, Len(s)) = p

RECURSIVE TrimStart(_)
TrimStart(s) ==
  IF s # <<>> /\ Head(s) \in WhiteSpace THEN TrimStart(Tail(s)) ELSE s

RECURSIVE TrimEnd(_)
TrimEnd(s) ==
  IF s # <<>> /\ s[Len(s)] \in WhiteSpace
  THEN TrimEnd(SubSeq(s, 1, Len(s) - 1)) ELSE s

\* str::trim
Trim(s) == TrimEnd(TrimStart(s))

(***************************************************************************)
(* 32-bit arithmetic on <<hi, lo>> halves                                  *)
(***************************************************************************)

W16 == 2 ^ 16

\* i32::MAX and i32::MIN, written so that no intermediate value exceeds them.
I32Max == (2 ^ 30 - 1) * 2 + 1
I32Min == -I32Max - 1

\* The 32-bit pattern of a non-negative value below 2^31.
Word(n) == <<n \div W16, n % W16>>

\* i32::wrapping_add on bit patterns.
WrappingAdd(a, b) ==
  LET lo == a[2] + b[2]
  IN  <<(a[1] + b[1] + lo \div W16) % W16, lo % W16>>

\* i32::wrapping_sub on bit patterns.
WrappingSub(a, b) ==
  LET lo == a[2] - b[2]
      borrow == IF lo < 0 THEN 1 ELSE 0
  IN  <<(a[1] - b[1] - borrow + 2 * W16) % W16, (lo + W16) % W16>>

\* `hash << 5` on an i32: the bits shifted out are lost.
ShiftLeft5(w) ==
  LET lo == w[2] * 32
  IN  <<(w[1] * 32 + lo \div W16) % W16, lo % W16>>

\* The sign of the i32 with this bit pattern.
IsNegative(w) == w[1] >= W16 \div 2

\* i32::unsigned_abs: the magnitude as a u32 bit pattern (2^31 for i32::MIN).
UnsignedAbs(w) == IF IsNegative(w) THEN WrappingSub(<<0, 0>>, w) ELSE w

\* u32 % m for a small modulus m, computed on the halves.
RemU32(w, m) == ((w[1] % m) * (W16 % m) + w[2]) % m

\* `x as i32` of a u32 bit pattern, as an integer.
AsI32(w) ==
  IF w[1] >= W16 \div 2 THEN (w[1] - W16) * W16 + w[2] ELSE w[1] * W16 + w[2]

(***************************************************************************)
(* Endpoint resolver: get_port_for_session                                 *)
(***************************************************************************)

PortBase == 49152
PortModulus == 16383

\* One iteration of the loop body: ((hash << 5) - hash) + c, wrapping.
HashStepShift4(hash, c) ==
  WrappingAdd(WrappingSub(<<(hash[1] * 16 + (hash[2] * 16) \div W16) % W16,
                            (hash[2] * 16) % W16>>, hash), Word(Ord[c]))

HashStep(hash, c) ==
  WrappingAdd(WrappingSub(ShiftLeft5(hash), hash), Word(Ord[c]))

RECURSIVE HashFrom(_, _)
HashFrom(hash, s) ==
  IF s = <<>> THEN hash ELSE HashFrom(HashStep(hash, Head(s)), Tail(s))

\* The i32 hash of a session after the loop over session.chars().
SessionHash(session) == HashFrom(<<0, 0>>, session)

\* A reduction by 2^14 instead of 2^14 - 1.
PortFromHashPow2(hash) == PortBase + (RemU32(UnsignedAbs(hash), 16384) % W16)

\* 49152 + ((hash.unsigned_abs() as u32 % 16383) as u16)
PortFromHash(hash) == PortBase + (RemU32(UnsignedAbs(hash), PortModulus) % W16)

GetPortForSession(session) == PortFromHash(SessionHash(session))

(***************************************************************************)
(* str::parse::<i32>, str::parse::<u32>                                    *)
(***************************************************************************)

\* Parse results: [ok |-> FALSE] or [ok |-> TRUE, val |-> v].
ParseErr == [ok |-> FALSE]

\* Accumulate ASCII digits into a non-negative i32; overflow is an error.
RECURSIVE AccPos(_, _)
AccPos(acc, s) ==
  IF s = <<>> THEN [ok |-> TRUE, val |-> acc]
  ELSE IF Head(s) \notin Digits THEN ParseErr
  ELSE IF acc > (I32Max - DigitVal(Head(s))) \div 10 THEN ParseErr
  ELSE AccPos(acc * 10 + DigitVal(Head(s)), Tail(s))

\* Accumulate ASCII digits into a non-positive i32 (the text had a '-').
RECURSIVE AccNeg(_, _)
AccNeg(acc, s) ==
  IF s = <<>> THEN [ok |-> TRUE, val |-> acc]
  ELSE IF Head(s) \notin Digits THEN ParseErr
  ELSE IF -acc > (I32Max - DigitVal(Head(s)) + 1) \div 10 THEN ParseErr
  ELSE AccNeg(acc * 10 - DigitVal(Head(s)), Tail(s))

\* str::parse::<i32>: an optional sign, then at least one digit.
ParseI32(s) ==
  IF s = <<>> THEN ParseErr
  ELSE IF Head(s) \in {"+", "-"} /\ Len(s) = 1 THEN ParseErr
  ELSE IF Head(s) = "+" THEN AccPos(0, Tail(s))
  ELSE IF Head(s) = "-" THEN AccNeg(0, Tail(s))
  ELSE AccPos(0, s)

\* Accumulate ASCII digits into a u32 bit pattern; overflow is an error.
RECURSIVE AccU32(_, _)
AccU32(w, s) ==
  IF s = <<>> THEN [ok |-> TRUE, val |-> w]
  ELSE IF Head(s) \notin Digits THEN ParseErr
  ELSE LET lo == w[2] * 10 + DigitVal(Head(s))
           hi == w[1] * 10 + lo \div W16
       IN  IF hi >= W16 THEN ParseErr
           ELSE AccU32(<<hi, lo % W16>>, Tail(s))

\* str::parse::<u32>: an optional '+', then at least one digit; no '-'.
ParseU32(s) ==
  IF s = <<>> THEN ParseErr
  ELSE IF Head(s) \in {"+", "-"} /\ Len(s) = 1 THEN ParseErr
  ELSE IF Head(s) = "+" THEN AccU32(<<0, 0>>, Tail(s))
  ELSE AccU32(<<0, 0>>, s)

(***************************************************************************)
(* The environment the client observes                                     *)
(***************************************************************************)

VARIABLES
  platform,   \* "unix" or "windows": which cfg(...) variant was built
  tmpDir,     \* env::temp_dir(): file name -> file state
  readDirOk,  \* whether fs::read_dir(temp dir) succeeds
  alive,      \* ids of the live processes (all may be signalled by the client)
  sockets,    \* unix: session -> processes listening on its socket path
  ports       \* windows: TCP port -> processes listening on 127.0.0.1:port

envVars == <<platform, tmpDir, readDirOk, alive, sockets, ports>>

\* File states of the temp directory.
NoFile == [kind |-> "none", text |-> <<>>]
Unreadable == [kind |-> "unreadable", text |-> <<>>]
File(text) == [kind |-> "file", text |-> text]

MarkerPrefix ==
  <<"a", "g", "e", "n", "t", "-", "b", "r", "o", "w", "s", "e", "r", "-">>
PidSuffix == <<".", "p", "i", "d">>
SockSuffix == <<".", "s", "o", "c", "k">>

\* File name, inside the temp directory, of the session's socket.
GetSocketPath(session) == MarkerPrefix \o session \o SockSuffix

\* File name, inside the temp directory, of the session's marker.
GetPidPath(session) == MarkerPrefix \o session \o PidSuffix

\* Path::exists
Exists(name) == name \in DOMAIN tmpDir /\ tmpDir[name].kind # "none"

\* fs::read_to_string: [ok |-> FALSE] or [ok |-> TRUE, val |-> text].
ReadToString(name) ==
  IF name \in DOMAIN tmpDir /\ tmpDir[name].kind = "file"
  THEN [ok |-> TRUE, val |-> tmpDir[name].text]
  ELSE [ok |-> FALSE]

\* Every daemon is spawned after setsid, so it leads the process group that
\* has its own process id.
ProcessGroups == alive

\* libc::kill(pid, 0) == 0.  pid > 0 probes that process, pid = 0 the
\* caller's own process group, pid = -1 every process the caller may signal,
\* pid < -1 the process group -pid (none for i32::MIN).
KillZero(pid) ==
  IF pid > 0 THEN pid \in alive
  ELSE IF pid = 0 THEN TRUE
  ELSE IF pid = -1 THEN alive # {}
  ELSE IF pid = I32Min THEN FALSE
  ELSE -pid \in ProcessGroups

\* OpenProcess(PROCESS_QUERY_LIMITED_INFORMATION, 0, pid) != 0 for a u32 pid.
OpenProcessOk(w) == \E p \in alive : Word(p) = w

\* UnixStream::connect(path).is_ok() / TcpStream::connect(..).is_ok()
ConnectOk(session) ==
  IF platform = "unix"
  THEN session \in DOMAIN sockets /\ sockets[session] # {}
  ELSE GetPortForSession(session) \in DOMAIN ports
       /\ ports[GetPortForSession(session)] # {}

(***************************************************************************)
(* Liveness prober                                                         *)
(***************************************************************************)

\* The unix probe without the trim of the marker text.
IsDaemonRunningUnixNoTrim(session) ==
  LET pid_path == GetPidPath(session)
      pid_str == ReadToString(pid_path)
      pid == IF pid_str.ok THEN ParseI32(pid_str.val) ELSE ParseErr
  IN  IF ~Exists(pid_path) THEN FALSE
      ELSE IF pid_str.ok /\ pid.ok THEN KillZero(pid.val)
      ELSE FALSE

\* is_daemon_running, cfg(unix)
IsDaemonRunningUnix(session) ==
  LET pid_path == GetPidPath(session)
      pid_str == ReadToString(pid_path)
      pid == IF pid_str.ok THEN ParseI32(Trim(pid_str.val)) ELSE ParseErr
  IN  IF ~Exists(pid_path) THEN FALSE
      ELSE IF pid_str.ok /\ pid.ok THEN KillZero(pid.val)
      ELSE FALSE

\* is_daemon_running, cfg(windows)
IsDaemonRunningWindows(session) ==
  IF ~Exists(GetPidPath(session)) THEN FALSE ELSE ConnectOk(session)

IsDaemonRunning(session) ==
  IF platform = "unix" THEN IsDaemonRunningUnix(session)
  ELSE IsDaemonRunningWindows(session)

\* daemon_ready
DaemonReady(session) == ConnectOk(session)

(***************************************************************************)
(* Session registry: run_session, Some("list")                             *)
(***************************************************************************)

\* strip_prefix("agent-browser-").and_then(strip_suffix(".pid")).unwrap_or("")
SessionNameOf(name) ==
  IF StartsWith(name, MarkerPrefix)
     /\ EndsWith(Slice(name, Len(MarkerPrefix) + 1, Len(name)), PidSuffix)
  THEN Slice(name, Len(MarkerPrefix) + 1, Len(name) - Len(PidSuffix))
  ELSE <<>>

\* `running` for one directory entry whose content parsed as a u32.
EntryRunning(w) ==
  IF platform = "unix" THEN KillZero(AsI32(w)) ELSE OpenProcessOk(w)

\* Whether the loop body pushes the session of this directory entry.
EntryListed(name) ==
  LET pid_str == ReadToString(name)
      pid == IF pid_str.ok THEN ParseU32(Trim(pid_str.val)) ELSE ParseErr
  IN  /\ StartsWith(name, MarkerPrefix) /\ EndsWith(name, PidSuffix)
      /\ SessionNameOf(name) # <<>>
      /\ pid_str.ok /\ pid.ok
      /\ EntryRunning(pid.val)

\* The sessions vector after the scan, as a set.
ListSessions ==
  IF readDirOk
  THEN {SessionNameOf(name) : name \in {n \in DOMAIN tmpDir : Exists(n) /\ EntryListed(n)}}
  ELSE {}

(***************************************************************************)
(* State of the client operations                                          *)
(***************************************************************************)

VARIABLES
  probe,      \* session -> outcome of an is_daemon_running call ("none" before)
  listPc,     \* "idle" before `session list` has run, "done" after
  listOut     \* the sessions `session list` printed

listVars == <<probe, listPc, listOut>>

VARIABLES
  proxyIn,    \* the proxy string given to parse_proxy
  proxyPc,    \* "idle" before the call, "done" after
  proxyOut    \* the JSON object returned: [server, auth, username, password]

proxyVars == <<proxyIn, proxyPc, proxyOut>>

VARIABLES
  homeSet,    \* whether env::var("AGENT_BROWSER_HOME") is Ok
  pathExists, \* the candidate daemon paths that exist
  exeOk,      \* whether env::current_exe() is Ok
  nodeOk,     \* whether Command::new("node")...spawn() is Ok
  active,     \* the clients that call ensure_daemon
  daemons,    \* process id -> [by, state, marked, intime] of the daemon
              \*   processes; intime records, for the claims, whether a
              \*   client had not yet returned when the daemon bound
  nextPid,    \* the process id the next spawned process gets
  pc,         \* client -> position inside ensure_daemon
  calls,      \* client -> number of ensure_daemon calls started
  pre,        \* client -> whether, when the current call began, the marker
              \*           held a live process id and the endpoint accepted
  stale,      \* client -> whether, when the current call began, the marker
              \*           recorded the id of a process that is not alive
  reuse,      \* client -> value of the condition of line 170 in this call
  daemonPath, \* client -> the candidate found by this call, "" if none
  spawns,     \* client -> processes spawned by the current call
  probes,     \* client -> daemon_ready probes made by the poll loop
  sleeps,     \* client -> milliseconds slept by the poll loop
  result      \* client -> what the current call returned

hostVars == <<homeSet, pathExists, exeOk, nodeOk, active>>
lifeVars == <<daemons, nextPid, pc, calls, pre, stale, reuse, daemonPath, spawns,
              probes, sleeps, result>>

VARIABLES
  hashIn,     \* the session given to get_port_for_session
  hashPc,     \* "idle" before the call, "done" after
  hashOut,    \* the i32 hash after the loop, as a bit pattern
  portOut     \* the port returned

portVars == <<hashIn, hashPc, hashOut, portOut>>

VARIABLES
  sendPc,       \* position inside send_command
  sendCalls,    \* number of send_command calls started
  connsOpened,  \* number of connections opened by connect()
  request,      \* the cmd of the current call
  peer,         \* what the peer does on the current connection
  written,      \* the request lines written on the current connection
  readCount,    \* read_line calls made on the current connection
  responseLine, \* the line read_line returned
  sendResult    \* what the current call returned

sendVars == <<sendPc, sendCalls, connsOpened, request, peer, written,
              readCount, responseLine, sendResult>>

vars == <<envVars, listVars, proxyVars, hostVars, lifeVars, portVars, sendVars>>

(***************************************************************************)
(* Bounds of the model                                                     *)
(***************************************************************************)

\* Longest session given to get_port_for_session.
MaxSessionLen == 4
\* Process ids are 1..MaxPid.
MaxPid == 3
\* ensure_daemon calls made by one client.
MaxCalls == 2
\* send_command calls made.
MaxSends == 2

Pids == 1 .. MaxPid

Clients == {"c1", "c2"}

\* The session the supervisor is asked for.
TheSession == <<"a">>

\* Sessions whose markers the registry scan and the probes look at.
ProbeSessions == {<<"a">>, <<"b">>}

\* Decimal text of a positive integer (what a daemon records in its marker).
RECURSIVE ToDecimal(_)
ToDecimal(n) ==
  LET d == <<CHOOSE c \in Digits : DigitVal(c) = n % 10>>
  IN  IF n < 10 THEN d ELSE ToDecimal(n \div 10) \o d

\* The port table of the sessions of the model.
PortsOf(S) == {GetPortForSession(s) : s \in S}

(***************************************************************************)
(* Initial values of the parts a specification does not exercise           *)
(***************************************************************************)

NoResult == [kind |-> "none", already_running |-> FALSE, error |-> <<>>]

\* The json! objects parse_proxy returns.  auth tells whether the username
\* and password fields are present.
ProxyNoAuth(server) ==
  [server |-> server, auth |-> FALSE, username |-> <<>>, password |-> <<>>]
ProxyAuth(server, username, password) ==
  [server |-> server, auth |-> TRUE, username |-> username,
   password |-> password]

IdleProxy ==
  /\ proxyIn = <<>>
  /\ proxyPc = "idle"
  /\ proxyOut = ProxyNoAuth(<<>>)

IdleList ==
  /\ probe = [s \in ProbeSessions |-> "none"]
  /\ listPc = "idle"
  /\ listOut = {}

NoDaemon == [by |-> "", state |-> "none", marked |-> FALSE, intime |-> FALSE]

IdleLife ==
  /\ daemons = [p \in Pids |-> NoDaemon]
  /\ nextPid = 1
  /\ pc = [c \in Clients |-> "idle"]
  /\ calls = [c \in Clients |-> 0]
  /\ pre = [c \in Clients |-> FALSE]
  /\ stale = [c \in Clients |-> FALSE]
  /\ reuse = [c \in Clients |-> FALSE]
  /\ daemonPath = [c \in Clients |-> ""]
  /\ spawns = [c \in Clients |-> 0]
  /\ probes = [c \in Clients |-> 0]
  /\ sleeps = [c \in Clients |-> 0]
  /\ result = [c \in Clients |-> NoResult]

IdleHost ==
  /\ homeSet = FALSE
  /\ pathExists = {}
  /\ exeOk = TRUE
  /\ nodeOk = TRUE
  /\ active = {}

IdlePort ==
  /\ hashIn = <<>>
  /\ hashPc = "idle"
  /\ hashOut = <<0, 0>>
  /\ portOut = PortBase

\* JSON values: [kind, lit, items, members].  A scalar has its text in lit,
\* an array its values in items, an object its <<key, value>> members, in
\* the order of the text, in members.
JVal(kind, lit, items, members) ==
  [kind |-> kind, lit |-> lit, items |-> items, members |-> members]
JNull == JVal("null", "null", <<>>, <<>>)
JTrue == JVal("bool", "true", <<>>, <<>>)
JFalse == JVal("bool", "false", <<>>, <<>>)
JNum(digits) == JVal("num", digits, <<>>, <<>>)
JStr(str) == JVal("str", str, <<>>, <<>>)
JArr(items) == JVal("arr", "", items, <<>>)
JObj(members) == JVal("obj", "", <<>>, members)

\* A text on the wire: a JSON document, or bytes that are not one.
JsonText(doc) == [form |-> "json", doc |-> doc]
OtherText(form) == [form |-> form, doc |-> JNull]
NoBytes == OtherText("empty")

\* A line as read_line returns it: the text and whether a newline ends it.
Line(text, newline) == [text |-> text, newline |-> newline]

\* Response { success, data, error }; an Option is <<>> or <<v>>.
MakeResponse(success, data, error) ==
  [success |-> success, data |-> data, error |-> error]
DefaultResponse == MakeResponse(FALSE, <<>>, <<>>)

NoSendResult == [kind |-> "none", response |-> DefaultResponse, error |-> <<>>]
SendOk(resp) == [kind |-> "ok", response |-> resp, error |-> <<>>]
SendErr(msg) == [kind |-> "err", response |-> DefaultResponse, error |-> msg]

\* A peer that has not been connected to.
NoPeer == [text |-> NoBytes, newline |-> FALSE, ending |-> "close",
           writeOk |-> TRUE]

IdleSend ==
  /\ sendPc = "idle"
  /\ sendCalls = 0
  /\ connsOpened = 0
  /\ request = JNull
  /\ peer = NoPeer
  /\ written = <<>>
  /\ readCount = 0
  /\ responseLine = Line(NoBytes, FALSE)
  /\ sendResult = NoSendResult

(***************************************************************************)
(* SpecList: the liveness probe and the registry scan over directory       *)
(* contents                                                                *)
(***************************************************************************)

\* Marker contents: a process id, one with surrounding whitespace, zero,
\* signed numbers, text, nothing, and a number above i32::MAX.
MarkerTexts ==
  { <<"1">>, <<" ", "2", "\n">>, <<"0">>, <<"-", "2">>, <<"+", "1">>,
    <<"x">>, <<>>, <<"4", "2", "9", "4", "9", "6", "7", "2", "9", "4">> }

\* Processes that may be alive when the directory is scanned.
ListPids == {1, 2}

\* A file that is not a marker although it ends in ".pid".
OtherPidFile == <<"b", ".", "p", "i", "d">>

ListFiles ==
  { GetPidPath(<<"a">>), GetPidPath(<<"b">>), GetPidPath(<<>>),
    GetSocketPath(<<"a">>), OtherPidFile }

\* The states each file of the temp directory may start in.
ListFileStates(name) ==
  IF name = GetPidPath(<<"a">>)
  THEN {NoFile, Unreadable} \cup {File(t) : t \in MarkerTexts}
  ELSE IF name = GetPidPath(<<"b">>)
  THEN {NoFile, File(<<"1">>), File(<<"x">>)}
  ELSE {NoFile, File(<<"1">>)}

\* Listener tables in which only the endpoint of session "a" may be held.
ListenersOfA(keys, key, holders) ==
  {[k \in keys |-> IF k = key THEN h ELSE {}] : h \in holders}

InitList ==
  /\ platform \in {"unix", "windows"}
  /\ tmpDir \in {d \in [ListFiles -> {NoFile, Unreadable} \cup
                          {File(t) : t \in MarkerTexts}] :
                   \A n \in ListFiles : d[n] \in ListFileStates(n)}
  /\ readDirOk \in BOOLEAN
  /\ alive \in SUBSET ListPids
  /\ \E holders \in {{{}} \cup {{p} : p \in alive}} :
       IF platform = "unix"
       THEN /\ sockets \in ListenersOfA(ProbeSessions, <<"a">>, holders)
            /\ ports = [k \in PortsOf(ProbeSessions) |-> {}]
       ELSE /\ sockets = [k \in ProbeSessions |-> {}]
            /\ ports \in ListenersOfA(PortsOf(ProbeSessions),
                                      GetPortForSession(<<"a">>), holders)
  /\ IdleList /\ IdleProxy /\ IdleHost /\ IdleLife /\ IdlePort /\ IdleSend

\* One call of is_daemon_running(s); the outcome is recorded.
ProbeRunning(s) ==
  /\ probe[s] = "none"
  /\ probe' = [probe EXCEPT ![s] = IF IsDaemonRunning(s) THEN "true" ELSE "false"]
  /\ UNCHANGED <<listPc, listOut, proxyVars, envVars, hostVars, lifeVars, portVars, sendVars>>

\* A scan that also removes the marker of session "a" when it does not list
\* the session.
RunSessionListPrunes ==
  /\ listPc = "idle"
  /\ listOut' = ListSessions
  /\ listPc' = "done"
  /\ tmpDir' = [tmpDir EXCEPT ![GetPidPath(<<"a">>)] =
                  IF <<"a">> \in ListSessions THEN @ ELSE NoFile]
  /\ UNCHANGED <<probe, proxyVars, platform, readDirOk, alive, sockets, ports,
                 hostVars, lifeVars, portVars, sendVars>>

\* `agent-browser session list`
RunSessionList ==
  /\ listPc = "idle"
  /\ listOut' = ListSessions
  /\ listPc' = "done"
  /\ UNCHANGED <<probe, proxyVars, envVars, hostVars, lifeVars, portVars, sendVars>>

NextList ==
  \/ \E s \in ProbeSessions : ProbeRunning(s)
  \/ RunSessionList

SpecList == InitList /\ [][NextList]_vars

(***************************************************************************)
(* Daemon supervisor: ensure_daemon                                        *)
(***************************************************************************)

\* The candidate entry points.
HomeDist == "$AGENT_BROWSER_HOME/dist/daemon.js"
HomeRoot == "$AGENT_BROWSER_HOME/daemon.js"
ExeDir == "<exe_dir>/daemon.js"
ExeDist == "<exe_dir>/../dist/daemon.js"
CwdDist == "dist/daemon.js"

Candidates == {HomeDist, HomeRoot, ExeDir, ExeDist, CwdDist}

\* Vec::insert(i, x) with a 0-based index.
Insert(v, i, x) == SubSeq(v, 1, i) \o <<x>> \o SubSeq(v, i + 1, Len(v))

\* The candidate list with the AGENT_BROWSER_HOME entries always inserted.
DaemonPathsAlwaysHome ==
  Insert(Insert(<<ExeDir, ExeDist, CwdDist>>, 0, HomeDist), 1, HomeRoot)

\* The candidate list with the AGENT_BROWSER_HOME entries pushed at the end.
DaemonPathsHomeAppended ==
  LET base == <<ExeDir, ExeDist, CwdDist>>
  IN  IF homeSet THEN base \o <<HomeDist, HomeRoot>> ELSE base

\* daemon_paths after lines 179-190.
DaemonPaths ==
  LET base == <<ExeDir, ExeDist, CwdDist>>
  IN  IF homeSet THEN Insert(Insert(base, 0, HomeDist), 1, HomeRoot) ELSE base

\* daemon_paths.iter().find(|p| p.exists()): [ok, val].
FindDaemon ==
  LET paths == DaemonPaths
      hits == {i \in 1 .. Len(paths) : paths[i] \in pathExists}
  IN  IF hits = {} THEN [ok |-> FALSE, val |-> ""]
      ELSE [ok |-> TRUE,
            val |-> paths[CHOOSE i \in hits : \A j \in hits : i <= j]]

\* Error texts, word by word.  IoError stands for the text of an OS error.
IoError == "<os error>"
NotFoundMsg ==
  <<"Daemon", "not", "found.", "Set", "AGENT_BROWSER_HOME", "environment",
    "variable", "or", "run", "from", "project", "directory.">>
SpawnErrMsg == <<"Failed", "to", "start", "daemon:", IoError>>
FailedToStartMsg == <<"Daemon", "failed", "to", "start">>
CurrentExeErrMsg == <<IoError>>

OkResult(already) == [kind |-> "ok", already_running |-> already, error |-> <<>>]
ErrResult(msg) == [kind |-> "err", already_running |-> FALSE, error |-> msg]

\* A loop over 0..=50.
PollAttemptsInclusive == 50 + 1

\* for _ in 0..50
PollAttempts == 50
\* thread::sleep(Duration::from_millis(100))
SleepMillis == 100

\* The marker of TheSession holds the id of a live process and its endpoint
\* accepts connections (recorded when a call begins, for the claims).
ReadyForReuse ==
  /\ tmpDir[GetPidPath(TheSession)].kind = "file"
  /\ \E p \in alive : Trim(tmpDir[GetPidPath(TheSession)].text) = ToDecimal(p)
  /\ ConnectOk(TheSession)

\* The marker of TheSession records a process id that no live process has
\* (recorded when a call begins, for the claims).
StaleMarker ==
  /\ tmpDir[GetPidPath(TheSession)].kind = "file"
  /\ ParseI32(Trim(tmpDir[GetPidPath(TheSession)].text)).ok
  /\ ParseI32(Trim(tmpDir[GetPidPath(TheSession)].text)).val > 0
  /\ ParseI32(Trim(tmpDir[GetPidPath(TheSession)].text)).val \notin alive

\* Line 170: is_daemon_running(session) && daemon_ready(session).
ReuseCondition == IsDaemonRunning(TheSession) /\ DaemonReady(TheSession)

\* Lines 164-174: the call begins; an existing ready daemon is reused.
EnsureStart(c) ==
  /\ c \in active
  /\ pc[c] \in {"idle", "done"}
  /\ calls[c] < MaxCalls
  /\ calls' = [calls EXCEPT ![c] = @ + 1]
  /\ pre' = [pre EXCEPT ![c] = ReadyForReuse]
  /\ stale' = [stale EXCEPT ![c] = StaleMarker]
  /\ reuse' = [reuse EXCEPT ![c] = ReuseCondition]
  /\ daemonPath' = [daemonPath EXCEPT ![c] = ""]
  /\ spawns' = [spawns EXCEPT ![c] = 0]
  /\ probes' = [probes EXCEPT ![c] = 0]
  /\ sleeps' = [sleeps EXCEPT ![c] = 0]
  /\ IF ReuseCondition
     THEN /\ result' = [result EXCEPT ![c] = OkResult(TRUE)]
          /\ pc' = [pc EXCEPT ![c] = "done"]
     ELSE /\ result' = [result EXCEPT ![c] = NoResult]
          /\ pc' = [pc EXCEPT ![c] = "locate"]
  /\ UNCHANGED <<daemons, nextPid, envVars, hostVars, listVars, proxyVars, portVars, sendVars>>

\* Lines 176-195: find the daemon entry point.
Locate(c) ==
  /\ pc[c] = "locate"
  /\ IF ~exeOk
     THEN /\ result' = [result EXCEPT ![c] = ErrResult(CurrentExeErrMsg)]
          /\ pc' = [pc EXCEPT ![c] = "done"]
          /\ UNCHANGED daemonPath
     ELSE IF ~FindDaemon.ok
     THEN /\ result' = [result EXCEPT ![c] = ErrResult(NotFoundMsg)]
          /\ pc' = [pc EXCEPT ![c] = "done"]
          /\ UNCHANGED daemonPath
     ELSE /\ daemonPath' = [daemonPath EXCEPT ![c] = FindDaemon.val]
          /\ pc' = [pc EXCEPT ![c] = "spawn"]
          /\ UNCHANGED result
  /\ UNCHANGED <<daemons, nextPid, calls, pre, stale, reuse, spawns, probes, sleeps,
                 envVars, hostVars, listVars, proxyVars, portVars, sendVars>>

\* A spawn step that starts the process and then reports a failure to
\* start it.
SpawnThenFail(c) ==
  /\ pc[c] = "spawn"
  /\ nodeOk => /\ nextPid <= MaxPid
               /\ alive' = alive \cup {nextPid}
               /\ daemons' = [daemons EXCEPT ![nextPid] =
                                [by |-> c, state |-> "starting",
                                 marked |-> FALSE, intime |-> FALSE]]
               /\ nextPid' = nextPid + 1
               /\ spawns' = [spawns EXCEPT ![c] = @ + 1]
  /\ ~nodeOk => UNCHANGED <<daemons, nextPid, alive, spawns>>
  /\ result' = [result EXCEPT ![c] = ErrResult(SpawnErrMsg)]
  /\ pc' = [pc EXCEPT ![c] = "done"]
  /\ UNCHANGED <<calls, pre, stale, reuse, daemonPath, probes, sleeps,
                 platform, tmpDir, readDirOk, sockets, ports,
                 hostVars, listVars, proxyVars, portVars, sendVars>>

\* Lines 197-268: spawn `node <daemon_path>` detached.
Spawn(c) ==
  /\ pc[c] = "spawn"
  /\ IF ~nodeOk
     THEN /\ result' = [result EXCEPT ![c] = ErrResult(SpawnErrMsg)]
          /\ pc' = [pc EXCEPT ![c] = "done"]
          /\ UNCHANGED <<daemons, nextPid, alive, spawns>>
     ELSE /\ nextPid <= MaxPid
          /\ alive' = alive \cup {nextPid}
          /\ daemons' = [daemons EXCEPT ![nextPid] =
                           [by |-> c, state |-> "starting", marked |-> FALSE,
                            intime |-> FALSE]]
          /\ nextPid' = nextPid + 1
          /\ spawns' = [spawns EXCEPT ![c] = @ + 1]
          /\ pc' = [pc EXCEPT ![c] = "poll"]
          /\ UNCHANGED result
  /\ UNCHANGED <<calls, pre, stale, reuse, daemonPath, probes, sleeps,
                 platform, tmpDir, readDirOk, sockets, ports,
                 hostVars, listVars, proxyVars, portVars, sendVars>>

\* A poll loop with no bound on the number of probes: it ends only when a
\* probe succeeds.
PollForever(c) ==
  /\ pc[c] = "poll"
  /\ IF DaemonReady(TheSession)
     THEN /\ result' = [result EXCEPT ![c] = OkResult(FALSE)]
          /\ pc' = [pc EXCEPT ![c] = "done"]
          /\ UNCHANGED <<probes, sleeps>>
     ELSE /\ probes' = [probes EXCEPT ![c] = IF @ < 50 THEN @ + 1 ELSE @]
          /\ sleeps' = [sleeps EXCEPT ![c] = IF @ < 50 * 100 THEN @ + 100 ELSE @]
          /\ UNCHANGED <<result, pc>>
  /\ UNCHANGED <<daemons, nextPid, calls, pre, stale, reuse, daemonPath, spawns,
                 envVars, hostVars, listVars, proxyVars, portVars, sendVars>>

\* Lines 270-277: one iteration of the poll loop; the error after the last.
Poll(c) ==
  /\ pc[c] = "poll"
  /\ probes[c] < PollAttempts
  /\ probes' = [probes EXCEPT ![c] = @ + 1]
  /\ IF DaemonReady(TheSession)
     THEN /\ result' = [result EXCEPT ![c] = OkResult(FALSE)]
          /\ pc' = [pc EXCEPT ![c] = "done"]
          /\ UNCHANGED sleeps
     ELSE /\ sleeps' = [sleeps EXCEPT ![c] = @ + SleepMillis]
          /\ IF probes[c] + 1 = PollAttempts
             THEN /\ result' = [result EXCEPT ![c] = ErrResult(FailedToStartMsg)]
                  /\ pc' = [pc EXCEPT ![c] = "done"]
             ELSE UNCHANGED <<result, pc>>
  /\ UNCHANGED <<daemons, nextPid, calls, pre, stale, reuse, daemonPath, spawns,
                 envVars, hostVars, listVars, proxyVars, portVars, sendVars>>

(***************************************************************************)
(* The daemon process, as the specification describes it                   *)
(***************************************************************************)

\* The listener table with process p added to / removed from the endpoint
\* of TheSession.
Listeners == IF platform = "unix" THEN sockets[TheSession]
             ELSE ports[GetPortForSession(TheSession)]

SetListeners(L) ==
  IF platform = "unix"
  THEN /\ sockets' = [sockets EXCEPT ![TheSession] = L]
       /\ UNCHANGED ports
  ELSE /\ ports' = [ports EXCEPT ![GetPortForSession(TheSession)] = L]
       /\ UNCHANGED sockets

\* What a daemon records in its marker.
MarkerOf(p) == File(ToDecimal(p) \o <<"\n">>)

\* A bind that succeeds also when another process holds the endpoint.
DaemonBindShared(p) ==
  /\ p \in alive
  /\ daemons[p].state = "starting"
  /\ SetListeners(Listeners \cup {p})
  /\ daemons' = [daemons EXCEPT ![p].state = "listening"]
  /\ UNCHANGED <<platform, tmpDir, readDirOk, alive, nextPid, pc, calls, pre, stale,
                 reuse, daemonPath, spawns, probes, sleeps, result,
                 hostVars, listVars, proxyVars, portVars, sendVars>>

\* The clients whose call has not returned (recorded at a bind, for the
\* claims).
ClientsPending == {c \in active : ~(pc[c] = "done" /\ calls[c] > 0)}

\* The daemon binds its listener; the bind fails, and the process ends,
\* when another process holds the endpoint.
DaemonBind(p) ==
  /\ p \in alive
  /\ daemons[p].state = "starting"
  /\ IF Listeners = {}
     THEN /\ SetListeners({p})
          /\ daemons' = [daemons EXCEPT ![p].state = "listening",
                                        ![p].intime = ClientsPending # {}]
          /\ UNCHANGED alive
     ELSE /\ daemons' = [daemons EXCEPT ![p].state = "exited"]
          /\ alive' = alive \ {p}
          /\ UNCHANGED <<sockets, ports>>
  /\ UNCHANGED <<platform, tmpDir, readDirOk, nextPid, pc, calls, pre, stale, reuse,
                 daemonPath, spawns, probes, sleeps, result,
                 hostVars, listVars, proxyVars, portVars, sendVars>>

\* The daemon records its process id in the marker file at startup.
DaemonWriteMarker(p) ==
  /\ p \in alive
  /\ daemons[p].state \in {"starting", "listening"}
  /\ ~daemons[p].marked
  /\ daemons' = [daemons EXCEPT ![p].marked = TRUE]
  /\ tmpDir' = [tmpDir EXCEPT ![GetPidPath(TheSession)] = MarkerOf(p)]
  /\ UNCHANGED <<platform, readDirOk, alive, sockets, ports, nextPid, pc,
                 calls, pre, stale, reuse, daemonPath, spawns, probes, sleeps, result,
                 hostVars, listVars, proxyVars, portVars, sendVars>>

\* The daemon process ends: its listener goes; its marker is removed on a
\* clean exit and stays behind after a crash.
DaemonExit(p, clean) ==
  /\ p \in alive
  /\ daemons[p].state \in {"starting", "listening"}
  /\ alive' = alive \ {p}
  /\ daemons' = [daemons EXCEPT ![p].state = "exited"]
  /\ SetListeners(Listeners \ {p})
  /\ IF clean /\ tmpDir[GetPidPath(TheSession)] = MarkerOf(p)
     THEN tmpDir' = [tmpDir EXCEPT ![GetPidPath(TheSession)] = NoFile]
     ELSE UNCHANGED tmpDir
  /\ UNCHANGED <<platform, readDirOk, nextPid, pc, calls, pre, stale, reuse,
                 daemonPath, spawns, probes, sleeps, result,
                 hostVars, listVars, proxyVars, portVars, sendVars>>

(***************************************************************************)
(* Spec: one client calling ensure_daemon repeatedly                       *)
(***************************************************************************)

\* Which candidate paths exist, with and without AGENT_BROWSER_HOME.
HostPaths ==
  { [home |-> FALSE, exists |-> {}],
    [home |-> FALSE, exists |-> {CwdDist}],
    [home |-> FALSE, exists |-> {HomeDist, HomeRoot}],
    [home |-> TRUE, exists |-> {HomeRoot, ExeDist}] }

\* What an earlier run may have left behind: process 1 is its daemon.
EarlierDaemon ==
  { [by |-> "", state |-> st, marked |-> FALSE, intime |-> st = "listening"] :
      st \in {"starting", "listening", "exited"} }

InitLife(clients) ==
  /\ platform \in {"unix", "windows"}
  /\ readDirOk = TRUE
  /\ tmpDir \in {[n \in ListFiles |-> IF n = GetPidPath(TheSession) THEN m
                                      ELSE NoFile] :
                   m \in {NoFile, File(<<"x">>), MarkerOf(1)}}
  /\ daemons \in {[p \in Pids |-> IF p = 1 THEN d ELSE NoDaemon] :
                    d \in EarlierDaemon}
  /\ alive = IF daemons[1].state = "exited" THEN {} ELSE {1}
  /\ LET L == IF daemons[1].state = "listening" THEN {1} ELSE {}
     IN  /\ sockets = [k \in ProbeSessions |->
                         IF platform = "unix" /\ k = TheSession THEN L ELSE {}]
         /\ ports = [k \in PortsOf(ProbeSessions) |->
                       IF platform = "windows"
                          /\ k = GetPortForSession(TheSession) THEN L ELSE {}]
  /\ nextPid = 2
  /\ \E h \in HostPaths : homeSet = h.home /\ pathExists = h.exists
  /\ exeOk \in BOOLEAN
  /\ nodeOk \in BOOLEAN
  /\ active = clients
  /\ pc = [c \in Clients |-> "idle"]
  /\ calls = [c \in Clients |-> 0]
  /\ pre = [c \in Clients |-> FALSE]
  /\ stale = [c \in Clients |-> FALSE]
  /\ reuse = [c \in Clients |-> FALSE]
  /\ daemonPath = [c \in Clients |-> ""]
  /\ spawns = [c \in Clients |-> 0]
  /\ probes = [c \in Clients |-> 0]
  /\ sleeps = [c \in Clients |-> 0]
  /\ result = [c \in Clients |-> NoResult]
  /\ IdleList /\ IdleProxy /\ IdlePort /\ IdleSend

Init == InitLife({"c1"})

Next ==
  \/ \E c \in Clients : EnsureStart(c)
  \/ \E c \in Clients : Locate(c)
  \/ \E c \in Clients : Spawn(c)
  \/ \E c \in Clients : Poll(c)
  \/ \E p \in Pids : DaemonBind(p)
  \/ \E p \in Pids : DaemonWriteMarker(p)
  \/ \E p \in Pids, clean \in BOOLEAN : DaemonExit(p, clean)

Spec == Init /\ [][Next]_vars

(***************************************************************************)
(* Command protocol client: send_command                                   *)
(***************************************************************************)

SerdeError == "<serde error>"
\* The connect error reported with the text of the send error.
ConnectErrMsgAsSend == <<"Failed", "to", "send:", "<os error>">>
ConnectErrMsg == <<"Failed", "to", "connect:", IoError>>
SendErrMsg == <<"Failed", "to", "send:", IoError>>
ReadErrMsg == <<"Failed", "to", "read:", IoError>>
InvalidResponseMsg == <<"Invalid", "response:", SerdeError>>

\* Deserialization results: [ok, val].
DeErr == [ok |-> FALSE, val |-> DefaultResponse]
DeOk(resp) == [ok |-> TRUE, val |-> resp]

\* bool::deserialize, Option<Value>::deserialize, Option<String>::deserialize
\* of one JSON value: [ok, val].
DeBool(v) == [ok |-> v.kind = "bool", val |-> <<v.lit = "true">>]
DeOptionValue(v) ==
  [ok |-> TRUE, val |-> IF v.kind = "null" THEN <<>> ELSE <<v>>]
DeOptionString(v) ==
  [ok |-> v.kind \in {"null", "str"},
   val |-> IF v.kind = "null" THEN <<>> ELSE <<v.lit>>]

\* The visit_map of the derived Deserialize of Response.  seen.f is <<>>
\* before field f was read and <<value>> after; a repeated field, a value of
\* the wrong type and a missing `success` are errors, an unknown key is
\* skipped, and a missing Option field is None.
RECURSIVE VisitMap(_, _)
VisitMap(members, seen) ==
  IF members = <<>>
  THEN IF seen.success = <<>> THEN DeErr
       ELSE DeOk(MakeResponse(seen.success[1][1],
                              IF seen.data = <<>> THEN <<>> ELSE seen.data[1],
                              IF seen.error = <<>> THEN <<>> ELSE seen.error[1]))
  ELSE LET key == Head(members)[1]
           v == Head(members)[2]
       IN  IF key = "success"
           THEN IF seen.success # <<>> \/ ~DeBool(v).ok THEN DeErr
                ELSE VisitMap(Tail(members),
                              [seen EXCEPT !.success = <<DeBool(v).val>>])
           ELSE IF key = "data"
           THEN IF seen.data # <<>> THEN DeErr
                ELSE VisitMap(Tail(members),
                              [seen EXCEPT !.data = <<DeOptionValue(v).val>>])
           ELSE IF key = "error"
           THEN IF seen.error # <<>> \/ ~DeOptionString(v).ok THEN DeErr
                ELSE VisitMap(Tail(members),
                              [seen EXCEPT !.error = <<DeOptionString(v).val>>])
           ELSE VisitMap(Tail(members), seen)

\* The visit_seq of the derived Deserialize of Response: the three fields in
\* order; fewer elements, more elements and a wrong type are errors.
VisitSeq(items) ==
  IF Len(items) # 3 THEN DeErr
  ELSE IF ~DeBool(items[1]).ok \/ ~DeOptionString(items[3]).ok THEN DeErr
  ELSE DeOk(MakeResponse(DeBool(items[1]).val[1], DeOptionValue(items[2]).val,
                         DeOptionString(items[3]).val))

\* Response::deserialize of a JSON document (deserialize_struct).
DeserializeResponse(doc) ==
  IF doc.kind = "obj"
  THEN VisitMap(doc.members,
                [success |-> <<>>, data |-> <<>>, error |-> <<>>])
  ELSE IF doc.kind = "arr" THEN VisitSeq(doc.items)
  ELSE DeErr

\* A from_str that answers an empty input with Response::default().
FromStrDefaultOnEmpty(line) ==
  IF line.text.form = "json" THEN DeserializeResponse(line.text.doc)
  ELSE IF line.text.form = "empty" THEN DeOk(DefaultResponse)
  ELSE DeErr

\* serde_json::from_str::<Response>(&response_line): the input must be one
\* JSON document, with white space (the newline) allowed around it.
FromStr(line) ==
  IF line.text.form = "json" THEN DeserializeResponse(line.text.doc)
  ELSE DeErr

\* reader.read_line(&mut response_line): [ok, val].  The call returns the
\* bytes up to and including the first newline, or up to the end of the
\* stream when the peer closes first; it fails when the stream reports an
\* OS error, when the 30 s read timeout passes before a line is complete,
\* and when the bytes are not UTF-8.
ReadLine(p) ==
  IF p.ending = "reset" \/ p.text.form = "binary"
  THEN [ok |-> FALSE, val |-> Line(NoBytes, FALSE)]
  ELSE IF p.newline THEN [ok |-> TRUE, val |-> Line(p.text, TRUE)]
  ELSE IF p.ending = "close" THEN [ok |-> TRUE, val |-> Line(p.text, FALSE)]
  ELSE [ok |-> FALSE, val |-> Line(NoBytes, FALSE)]

\* Commands sent.
Commands ==
  { JObj(<< <<"id", JStr("r1")>>, <<"action", JStr("close")>> >>),
    JObj(<< <<"id", JStr("r2")>>, <<"action", JStr("launch")>>,
            <<"headless", JFalse>> >>) }

\* Texts a peer may write.
Payloads ==
  { JsonText(JObj(<< <<"success", JTrue>>,
                     <<"data", JObj(<< <<"x", JNum("1")>> >>)>> >>)),
    JsonText(JObj(<< <<"success", JFalse>>, <<"error", JStr("boom")>> >>)),
    JsonText(JObj(<< <<"success", JTrue>> >>)),
    JsonText(JObj(<< <<"success", JTrue>>, <<"data", JNull>>,
                     <<"error", JNull>> >>)),
    JsonText(JObj(<< <<"success", JTrue>>, <<"extra", JNum("1")>> >>)),
    JsonText(JObj(<< <<"data", JNum("1")>> >>)),
    JsonText(JObj(<< <<"success", JStr("yes")>> >>)),
    JsonText(JObj(<< <<"success", JTrue>>, <<"error", JNum("5")>> >>)),
    JsonText(JObj(<< <<"success", JTrue>>, <<"success", JFalse>> >>)),
    JsonText(JArr(<<JTrue, JNull, JNull>>)),
    JsonText(JArr(<<JTrue>>)),
    JsonText(JTrue),
    OtherText("garbage"),
    OtherText("binary"),
    NoBytes }

\* What the peer does on one connection: the bytes it writes, whether a
\* newline ends them, how the connection ends for the reader ("close": end
\* of stream, "silent": the peer stays connected and writes no more,
\* "reset": an OS error), and whether the client's write_all succeeds.
PeerScripts ==
  [text : Payloads, newline : BOOLEAN, ending : {"close", "silent", "reset"},
   writeOk : BOOLEAN]

\* Line 298: connect(session).
SendConnect(cmd) ==
  /\ sendPc \in {"idle", "done"}
  /\ sendCalls < MaxSends
  /\ sendCalls' = sendCalls + 1
  /\ request' = cmd
  /\ written' = <<>>
  /\ readCount' = 0
  /\ responseLine' = Line(NoBytes, FALSE)
  /\ IF ConnectOk(TheSession)
     THEN /\ connsOpened' = connsOpened + 1
          /\ peer' \in PeerScripts
          /\ sendPc' = "connected"
          /\ sendResult' = NoSendResult
     ELSE /\ sendResult' = SendErr(ConnectErrMsg)
          /\ sendPc' = "done"
          /\ peer' = NoPeer
          /\ UNCHANGED connsOpened
  /\ UNCHANGED <<envVars, hostVars, lifeVars, listVars, proxyVars, portVars>>

\* A write step that sends the request line twice.
SendWriteTwice ==
  /\ sendPc = "connected"
  /\ IF peer.writeOk
     THEN /\ written' = written \o <<Line(JsonText(request), TRUE),
                                      Line(JsonText(request), TRUE)>>
          /\ sendPc' = "written"
          /\ UNCHANGED sendResult
     ELSE /\ sendResult' = SendErr(SendErrMsg)
          /\ sendPc' = "done"
          /\ UNCHANGED written
  /\ UNCHANGED <<sendCalls, connsOpened, request, peer, readCount,
                 responseLine, envVars, hostVars, lifeVars, listVars, proxyVars, portVars>>

\* Lines 300-308: the timeouts are set and the request line is written.
\* serde_json::to_string of a Value does not fail.
SendWrite ==
  /\ sendPc = "connected"
  /\ IF peer.writeOk
     THEN /\ written' = Append(written, Line(JsonText(request), TRUE))
          /\ sendPc' = "written"
          /\ UNCHANGED sendResult
     ELSE /\ sendResult' = SendErr(SendErrMsg)
          /\ sendPc' = "done"
          /\ UNCHANGED written
  /\ UNCHANGED <<sendCalls, connsOpened, request, peer, readCount,
                 responseLine, envVars, hostVars, lifeVars, listVars, proxyVars, portVars>>

\* Lines 310-316: one line is read and deserialized.
SendRead ==
  /\ sendPc = "written"
  /\ readCount' = readCount + 1
  /\ sendPc' = "done"
  /\ IF ~ReadLine(peer).ok
     THEN /\ sendResult' = SendErr(ReadErrMsg)
          /\ UNCHANGED responseLine
     ELSE /\ responseLine' = ReadLine(peer).val
          /\ sendResult' = IF FromStr(ReadLine(peer).val).ok
                           THEN SendOk(FromStr(ReadLine(peer).val).val)
                           ELSE SendErr(InvalidResponseMsg)
  /\ UNCHANGED <<sendCalls, connsOpened, request, peer, written,
                 envVars, hostVars, lifeVars, listVars, proxyVars, portVars>>

(***************************************************************************)
(* SpecSend: a sequence of send_command calls                              *)
(***************************************************************************)

InitSend ==
  /\ platform \in {"unix", "windows"}
  /\ readDirOk = TRUE
  /\ tmpDir = [n \in ListFiles |-> IF n = GetPidPath(TheSession)
                                   THEN MarkerOf(1) ELSE NoFile]
  /\ alive = {1}
  /\ \E L \in {{}, {1}} :
       /\ sockets = [k \in ProbeSessions |->
                       IF platform = "unix" /\ k = TheSession THEN L ELSE {}]
       /\ ports = [k \in PortsOf(ProbeSessions) |->
                     IF platform = "windows"
                        /\ k = GetPortForSession(TheSession) THEN L ELSE {}]
  /\ IdleList /\ IdleProxy /\ IdleHost /\ IdleLife /\ IdlePort /\ IdleSend

NextSend ==
  \/ \E cmd \in Commands : SendConnect(cmd)
  \/ SendWrite
  \/ SendRead

SpecSend == InitSend /\ [][NextSend]_vars

(***************************************************************************)
(* Claims about the liveness probe and the registry scan (SpecList)        *)
(***************************************************************************)

\* The text of the session's marker, trimmed, when the marker is a readable
\* file.
MarkerText(s) == Trim(tmpDir[GetPidPath(s)].text)

MarkerReadable(s) == tmpDir[GetPidPath(s)].kind = "file"

\* The marker of s records the id p.
MarkerRecords(s, p) ==
  MarkerReadable(s) /\ ParseI32(MarkerText(s)) = [ok |-> TRUE, val |-> p]

\* C4: for every session whose marker content parses as a process id that no
\* live process has, is_daemon_running returns false, whatever the state of
\* the listener on the session's endpoint.
C4_StaleMarkerNotRunning ==
  \A s \in ProbeSessions :
    (probe[s] # "none" /\ \E p \in Pids \ alive : MarkerRecords(s, p))
      => probe[s] = "false"

\* C5: is_daemon_running returns false when the marker file is absent and
\* when the marker content, trimmed, does not parse as a decimal process id.
C5_AbsentOrUnparsableNotRunning ==
  \A s \in ProbeSessions :
    (probe[s] # "none"
       /\ (tmpDir[GetPidPath(s)].kind = "none"
             \/ (MarkerReadable(s) /\ ~ParseI32(MarkerText(s)).ok)))
      => probe[s] = "false"

\* The sessions C10 names: the non-empty names s whose marker file
\* agent-browser-<s>.pid is readable and records the id of a live process.
LiveMarkerSessions ==
  {s \in ProbeSessions : \E p \in alive : MarkerRecords(s, p)}

\* C10: the session list is exactly the set of non-empty names s such that
\* the temp directory holds a file agent-browser-<s>.pid whose trimmed
\* content parses as the id of a live process; unreadable and malformed
\* entries are skipped, and an unreadable directory gives the empty list.
C10_ListIsLiveMarkers ==
  listPc = "done" =>
    listOut = IF readDirOk THEN LiveMarkerSessions ELSE {}

(***************************************************************************)
(* Claims about ensure_daemon (Spec)                                       *)
(***************************************************************************)

\* The error text names this word.
Names(msg, word) == \E i \in 1 .. Len(msg) : msg[i] = word

\* The candidate paths of a call: the AGENT_BROWSER_HOME ones only when the
\* variable is set.
CandidatePaths ==
  {ExeDir, ExeDist, CwdDist} \cup (IF homeSet THEN {HomeDist, HomeRoot} ELSE {})

\* C1: in any sequence of ensure_daemon calls, a call made while the marker
\* holds a live process id and the endpoint accepts connections returns Ok
\* with already_running = true, and that call spawns no process (and so
\* polls nothing).
C1_ReadyDaemonReused ==
  \A c \in Clients :
    pre[c] => /\ pc[c] = "done"
              /\ result[c] = OkResult(TRUE)
              /\ spawns[c] = 0
              /\ probes[c] = 0

\* Reached: the second call of a sequence found the daemon ready again.
C1_Witness ==
  /\ calls["c1"] = 2 /\ pre["c1"] /\ nextPid = 2
  /\ result["c1"] = OkResult(TRUE)

\* C2 as stated: when the reuse condition does not hold and no candidate
\* path exists, the call returns the error naming AGENT_BROWSER_HOME, having
\* spawned nothing and probed nothing.
C2_Original ==
  \A c \in Clients :
    (pc[c] = "done" /\ calls[c] > 0 /\ ~reuse[c]
       /\ CandidatePaths \cap pathExists = {})
      => /\ result[c].kind = "err"
         /\ Names(result[c].error, "AGENT_BROWSER_HOME")
         /\ spawns[c] = 0 /\ probes[c] = 0

\* C2, amended: the same, provided env::current_exe() succeeds; when it
\* fails the call returns that OS error instead, and also then it has
\* spawned nothing and probed nothing.
C2_NotFoundIsConfigError ==
  \A c \in Clients :
    (pc[c] = "done" /\ calls[c] > 0 /\ ~reuse[c]
       /\ CandidatePaths \cap pathExists = {})
      => /\ result[c].kind = "err"
         /\ exeOk => Names(result[c].error, "AGENT_BROWSER_HOME")
         /\ ~exeOk => result[c].error = <<IoError>>
         /\ spawns[c] = 0 /\ probes[c] = 0

\* Reached: a call ended with the "Daemon not found" error.
C2_Witness ==
  /\ pc["c1"] = "done" /\ ~reuse["c1"] /\ exeOk
  /\ CandidatePaths \cap pathExists = {}
  /\ Names(result["c1"].error, "AGENT_BROWSER_HOME")

\* C3: after its spawn a call probes daemon_ready at most 50 times and
\* sleeps 100 ms after each failed probe; it returns Ok with
\* already_running = false at the first probe that succeeds; it returns
\* "Daemon failed to start" exactly when all 50 probes failed; and it spawns
\* once only.
C3_PollBudget ==
  \A c \in Clients :
    /\ spawns[c] <= 1
    /\ probes[c] <= 50
    /\ probes[c] > 0 => spawns[c] = 1
    /\ pc[c] = "poll" => /\ spawns[c] = 1
                         /\ probes[c] < 50
                         /\ sleeps[c] = 100 * probes[c]
    /\ (pc[c] = "done" /\ spawns[c] = 1) =>
         /\ result[c] \in {OkResult(FALSE),
                           ErrResult(<<"Daemon", "failed", "to", "start">>)}
         /\ result[c] = OkResult(FALSE) =>
              probes[c] >= 1 /\ sleeps[c] = 100 * (probes[c] - 1)
         /\ result[c].kind = "err" <=>
              (probes[c] = 50 /\ sleeps[c] = 100 * 50)

\* Reached: the 50th probe failed and the call returned the error.
C3_Witness ==
  /\ pc["c1"] = "done" /\ spawns["c1"] = 1 /\ probes["c1"] = 50
  /\ result["c1"] = ErrResult(<<"Daemon", "failed", "to", "start">>)

(***************************************************************************)
(* SpecPort: get_port_for_session on bounded sessions                      *)
(***************************************************************************)

\* Characters of the sessions hashed: ASCII letters, the two characters whose
\* one-character sessions give the ends of the port range, and two large
\* scalar values that make the hash wrap and reach i32::MIN.
HashAlphabet == {"a", "b", "p", "r", "U3FFE", "U3FFF", "U10C41", "U10FFFF"}

HashSessions ==
  UNION {[1 .. n -> HashAlphabet] : n \in 0 .. MaxSessionLen}

InitPort ==
  /\ hashIn \in HashSessions
  /\ hashPc = "idle"
  /\ hashOut = <<0, 0>>
  /\ portOut = PortBase
  /\ platform = "windows"
  /\ tmpDir = [n \in ListFiles |-> NoFile]
  /\ readDirOk = TRUE
  /\ alive = {}
  /\ sockets = [k \in ProbeSessions |-> {}]
  /\ ports = [k \in PortsOf(ProbeSessions) |-> {}]
  /\ IdleList /\ IdleProxy /\ IdleHost /\ IdleLife /\ IdleSend

\* One call of get_port_for_session(hashIn).
ComputePort ==
  /\ hashPc = "idle"
  /\ hashOut' = SessionHash(hashIn)
  /\ portOut' = GetPortForSession(hashIn)
  /\ hashPc' = "done"
  /\ UNCHANGED <<hashIn, envVars, hostVars, lifeVars, listVars, proxyVars, sendVars>>

NextPort == ComputePort

SpecPort == InitPort /\ [][NextPort]_vars

(***************************************************************************)
(* Claims about get_port_for_session (SpecPort)                            *)
(***************************************************************************)

\* C6: for every session the port lies in 49152..65534, also when the
\* 32-bit hash has wrapped around or equals the minimum 32-bit integer.
\* (The port is a function of the session alone: get_port_for_session reads
\* nothing but its argument.)
C6_PortInRange ==
  hashPc = "done" => portOut \in 49152 .. 65534

\* Reached: the hash of the session is i32::MIN and its port was returned.
C6_Witness ==
  hashPc = "done" /\ hashOut = <<2 ^ 15, 0>> /\ portOut = 49152 + 8

\* w * k (mod 2^32) for a small factor k.
MulSmall(w, k) ==
  LET lo == w[2] * k
  IN  <<(w[1] * k + lo \div W16) % W16, lo % W16>>

\* w + n (mod 2^32) for a small non-negative n.
AddSmall(w, n) ==
  LET lo == w[2] + (n % W16)
  IN  <<(w[1] + n \div W16 + lo \div W16) % W16, lo % W16>>

\* The two's complement of a bit pattern: 2^32 - w.
Negated(w) ==
  IF w[2] = 0 THEN <<(W16 - w[1]) % W16, 0>>
  ELSE <<W16 - 1 - w[1], W16 - w[2]>>

\* |h| of the signed value of a bit pattern, as an unsigned bit pattern.
Magnitude(w) == IF w[1] >= 2 ^ 15 THEN Negated(w) ELSE w

\* The sessions made of ASCII characters only: their chars, their UTF-8
\* code units and their UTF-16 code units are the same numbers.
IsAscii(s) == \A i \in 1 .. Len(s) : Ord[s[i]] < 128

\* The scalar values of the chars of a session.
RECURSIVE ScalarValues(_)
ScalarValues(s) ==
  IF s = <<>> THEN <<>> ELSE <<Ord[Head(s)]>> \o ScalarValues(Tail(s))

\* Fold hash = hash*31 - hash + unit over a sequence of numbers.
RECURSIVE FoldTimes31MinusHash(_, _)
FoldTimes31MinusHash(h, units) ==
  IF units = <<>> THEN h
  ELSE FoldTimes31MinusHash(
         AddSmall(WrappingSub(MulSmall(h, 31), h), Head(units)), Tail(units))

\* Fold hash = hash*31 + c over a sequence of numbers.
RECURSIVE FoldTimes31(_, _)
FoldTimes31(h, units) ==
  IF units = <<>> THEN h
  ELSE FoldTimes31(AddSmall(MulSmall(h, 31), Head(units)), Tail(units))

\* C7 as stated, for ASCII sessions: the port is 49152 + (|h| mod 16383), h
\* being the fold of hash = hash*31 - hash + codeUnit over the code units of
\* the session.
C7_Original ==
  (hashPc = "done" /\ IsAscii(hashIn)) =>
    portOut = 49152 + RemU32(
                Magnitude(FoldTimes31MinusHash(<<0, 0>>, ScalarValues(hashIn))),
                16383)

\* C7, amended: the port is 49152 + (|h| mod 16383), h being the fold of
\* hash = hash*31 + c (that is, (hash << 5) - hash + c) in 32-bit
\* wraparound arithmetic over the chars (Unicode scalar values) of the
\* session, and |h| the unsigned magnitude of h.
C7_PortFormula ==
  hashPc = "done" =>
    /\ hashOut = FoldTimes31(<<0, 0>>, ScalarValues(hashIn))
    /\ portOut = 49152 + RemU32(Magnitude(hashOut), 16383)

\* Reached: a session whose hash has wrapped to a negative value.
C7_Witness ==
  hashPc = "done" /\ Len(hashIn) = 4 /\ hashOut[1] > 2 ^ 15

(***************************************************************************)
(* Claims about send_command (SpecSend)                                    *)
(***************************************************************************)

\* The error text begins with these words.
BeginsWith(msg, words) ==
  Len(msg) >= Len(words) /\ SubSeq(msg, 1, Len(words)) = words

\* The current call connected to a peer that wrote no byte and closed.
PeerClosedSilently ==
  /\ sendPc = "done" /\ sendCalls > 0
  /\ sendResult # SendErr(ConnectErrMsg)
  /\ peer.text = NoBytes /\ ~peer.newline /\ peer.ending # "silent"

RECURSIVE Given(_, _)
Given(members, key) ==
  IF members = <<>> THEN <<>>
  ELSE (IF Head(members)[1] = key THEN <<Head(members)[2]>> ELSE <<>>)
       \o Given(Tail(members), key)

\* The line is a JSON object with a boolean success field.
ObjectWithBoolSuccess(line) ==
  /\ line.text.form = "json"
  /\ line.text.doc.kind = "obj"
  /\ Given(line.text.doc.members, "success") # <<>>
  /\ Given(line.text.doc.members, "success")[1].kind = "bool"

\* An Option field of the response is the value the object gives (null
\* counts as absent) or absent when the object does not give the field.
OptionMatches(opt, given, isString) ==
  IF given = <<>> \/ given[1].kind = "null" THEN opt = <<>>
  ELSE opt = <<IF isString THEN given[1].lit ELSE given[1]>>

\* C9: send_command returns Ok(response) only when the line read is a JSON
\* object with a boolean success field; then response.success is that field
\* and data and error are the given values, or absent; any other line gives
\* an "Invalid response" error.
C9_OkOnlyForObject ==
  (sendPc = "done" /\ readCount = 1 /\ ReadLine(peer).ok) =>
    /\ sendResult.kind = "ok" =>
         /\ ObjectWithBoolSuccess(responseLine)
         /\ sendResult.response.success =
              (Given(responseLine.text.doc.members, "success")[1].lit = "true")
         /\ OptionMatches(sendResult.response.data,
                          Given(responseLine.text.doc.members, "data"), FALSE)
         /\ OptionMatches(sendResult.response.error,
                          Given(responseLine.text.doc.members, "error"), TRUE)
    /\ ~ObjectWithBoolSuccess(responseLine) =>
         sendResult = SendErr(<<"Invalid", "response:", SerdeError>>)

(***************************************************************************)
(* SpecRace: two clients, one ensure_daemon call each, in any interleaving *)
(***************************************************************************)

\* No daemon is running: the daemon of an earlier run, process 1, has ended
\* and has removed its marker.  The daemon entry point is in place and node
\* starts.
InitRace ==
  /\ InitLife(Clients)
  /\ daemons[1].state = "exited"
  /\ tmpDir[GetPidPath(TheSession)] = NoFile
  /\ exeOk /\ nodeOk
  /\ homeSet = FALSE /\ pathExists = {CwdDist}

\* The first call of a client.
EnsureStartOnce(c) == calls[c] = 0 /\ EnsureStart(c)

\* The steps of the calls and of the daemons they spawn; a daemon ends only
\* when its bind fails.
NextRace ==
  \/ \E c \in Clients : EnsureStartOnce(c)
  \/ \E c \in Clients : Locate(c)
  \/ \E c \in Clients : Spawn(c)
  \/ \E c \in Clients : Poll(c)
  \/ \E p \in Pids : DaemonBind(p)
  \/ \E p \in Pids : DaemonWriteMarker(p)

SpecRace == InitRace /\ [][NextRace]_vars

(***************************************************************************)
(* Claims about concurrent ensure_daemon calls (SpecRace)                  *)
(***************************************************************************)

\* C11: in every interleaving of ensure_daemon calls made by several clients
\* for the same session, at most one daemon process holds the listener of
\* the session's endpoint at any time.
C11_AtMostOneListener ==
  /\ Cardinality(Listeners) <= 1
  /\ Cardinality({p \in Pids : daemons[p].state = "listening"}) <= 1

\* Reached: both clients spawned a daemon, one daemon holds the listener and
\* the bind of the other failed.
C11_Witness ==
  /\ spawns["c1"] = 1 /\ spawns["c2"] = 1
  /\ \E p, q \in Pids :
       /\ daemons[p].by = "c1" /\ daemons[q].by = "c2"
       /\ {daemons[p].state, daemons[q].state} = {"listening", "exited"}
       /\ Listeners \subseteq {p, q} /\ Listeners # {}

(***************************************************************************)
(* Claims about a stale marker (Spec)                                      *)
(***************************************************************************)

\* C12: a call that begins while the marker records a dead process id, with
\* a daemon entry point in place (and the client binary and node able to
\* start it), does not return already_running = true and does not fail
\* because of the marker: it spawns a fresh daemon, returns Ok with
\* already_running = false when a probe finds the endpoint accepting, and
\* fails only when all 50 probes fail.
C12_StaleMarkerRespawns ==
  \A c \in Clients :
    (calls[c] > 0 /\ stale[c] /\ exeOk /\ nodeOk /\ FindDaemon.ok) =>
      /\ result[c] # OkResult(TRUE)
      /\ pc[c] \in {"poll", "done"} => spawns[c] = 1
      /\ pc[c] = "done" =>
           \/ result[c] = OkResult(FALSE)
           \/ /\ result[c] = ErrResult(<<"Daemon", "failed", "to", "start">>)
              /\ probes[c] = 50

(***************************************************************************)
(* Claims about the connections of send_command (SpecSend)                 *)
(***************************************************************************)

\* What holds of the connection of the current call in every state.
OneLineEach ==
  /\ connsOpened <= sendCalls
  /\ Len(written) <= 1
  /\ readCount <= 1
  /\ readCount = 1 => Len(written) = 1
  /\ \A i \in 1 .. Len(written) : written[i] = Line(JsonText(request), TRUE)
  /\ (sendPc = "done" /\ sendResult.kind = "ok") =>
       (Len(written) = 1 /\ readCount = 1)

\* What holds of every step: a call begins on a connection of its own, on
\* which nothing was written or read, and only the beginning of a call
\* opens a connection.
FreshConnectionEach ==
  /\ sendCalls' = sendCalls + 1 =>
       /\ connsOpened' = connsOpened + (IF ConnectOk(TheSession) THEN 1 ELSE 0)
       /\ written' = <<>> /\ readCount' = 0
  /\ sendCalls' = sendCalls => connsOpened' = connsOpened

\* C13: in any sequence of send_command calls, each call opens exactly one
\* new connection that no other call uses (none when the connect fails),
\* writes exactly one newline-terminated JSON line on it before reading
\* anything, and reads at most one line from it; no call writes a second
\* request on its connection.
C13_OneConnectionOneLine == []OneLineEach /\ [][FreshConnectionEach]_vars

\* Reached: the second of two calls got its response on the second
\* connection.
C13_Witness ==
  /\ sendCalls = 2 /\ connsOpened = 2 /\ sendPc = "done"
  /\ Len(written) = 1 /\ readCount = 1 /\ sendResult.kind = "ok"

\* C14: when the session's endpoint cannot be connected to, send_command
\* returns an error that begins with "Failed to connect", which no send,
\* read or invalid-response failure produces, and it writes no request
\* byte (and reads nothing).
C14_ConnectFailureIsDistinct ==
  /\ (sendCalls > 0 /\ ~ConnectOk(TheSession)) =>
       /\ sendPc = "done"
       /\ sendResult.kind = "err"
       /\ BeginsWith(sendResult.error, <<"Failed", "to", "connect:">>)
       /\ written = <<>> /\ readCount = 0 /\ connsOpened = 0
  /\ (sendPc = "done" /\ sendResult.kind = "err"
        /\ BeginsWith(sendResult.error, <<"Failed", "to", "connect:">>)) =>
       ~ConnectOk(TheSession)

\* Reached: two calls in a row failed to connect.
C14_Witness ==
  /\ sendCalls = 2 /\ sendPc = "done" /\ ~ConnectOk(TheSession)
  /\ sendResult = SendErr(<<"Failed", "to", "connect:", IoError>>)
  /\ written = <<>>

(***************************************************************************)
(* Claims about distinct sessions (SpecPort)                               *)
(***************************************************************************)

\* The non-empty sessions of ASCII letters.
AsciiSessions == {t \in HashSessions : t # <<>> /\ IsAscii(t)}

\* C15, for non-empty ASCII sessions: two distinct session identifiers never
\* resolve to the same endpoint: their socket paths differ and their
\* derived TCP ports differ.
C15_DistinctEndpoints ==
  (hashPc = "done" /\ hashIn \in AsciiSessions) =>
    \A t \in AsciiSessions \ {hashIn} :
      /\ GetSocketPath(t) # GetSocketPath(hashIn)
      /\ GetPortForSession(t) # portOut

(***************************************************************************)
(* SpecLocate: one ensure_daemon call on every layout of the candidate     *)
(* paths                                                                   *)
(***************************************************************************)

\* No daemon is running and no marker exists; any set of the candidate
\* paths exists, with AGENT_BROWSER_HOME set or unset.
InitLocate ==
  /\ platform \in {"unix", "windows"}
  /\ readDirOk = TRUE
  /\ tmpDir = [n \in ListFiles |-> NoFile]
  /\ daemons = [p \in Pids |-> NoDaemon]
  /\ alive = {}
  /\ sockets = [k \in ProbeSessions |-> {}]
  /\ ports = [k \in PortsOf(ProbeSessions) |-> {}]
  /\ nextPid = 1
  /\ homeSet \in BOOLEAN
  /\ pathExists \in SUBSET Candidates
  /\ exeOk = TRUE
  /\ nodeOk = TRUE
  /\ active = {"c1"}
  /\ pc = [c \in Clients |-> "idle"]
  /\ calls = [c \in Clients |-> 0]
  /\ pre = [c \in Clients |-> FALSE]
  /\ stale = [c \in Clients |-> FALSE]
  /\ reuse = [c \in Clients |-> FALSE]
  /\ daemonPath = [c \in Clients |-> ""]
  /\ spawns = [c \in Clients |-> 0]
  /\ probes = [c \in Clients |-> 0]
  /\ sleeps = [c \in Clients |-> 0]
  /\ result = [c \in Clients |-> NoResult]
  /\ IdleList /\ IdleProxy /\ IdlePort /\ IdleSend

SpecLocate == InitLocate /\ [][NextRace]_vars

(***************************************************************************)
(* Claims about the search for the daemon entry point (SpecLocate)         *)
(***************************************************************************)

\* The order C16 names.
SearchOrder ==
  IF homeSet THEN <<HomeDist, HomeRoot, ExeDir, ExeDist, CwdDist>>
  ELSE <<ExeDir, ExeDist, CwdDist>>

\* The first path of a list that exists, "" when none does.
RECURSIVE FirstExisting(_)
FirstExisting(paths) ==
  IF paths = <<>> THEN ""
  ELSE IF Head(paths) \in pathExists THEN Head(paths)
  ELSE FirstExisting(Tail(paths))

\* C16: the daemon entry point used by ensure_daemon is the first existing
\* path in the order <AGENT_BROWSER_HOME>/dist/daemon.js,
\* <AGENT_BROWSER_HOME>/daemon.js, <exe dir>/daemon.js,
\* <exe dir>/../dist/daemon.js, dist/daemon.js; with AGENT_BROWSER_HOME unset
\* only the last three are candidates, in that order.
C16_FirstExistingPathWins ==
  \A c \in Clients :
    /\ pc[c] \in {"spawn", "poll"} => daemonPath[c] # ""
    /\ spawns[c] > 0 => daemonPath[c] # ""
    /\ daemonPath[c] # "" => daemonPath[c] = FirstExisting(SearchOrder)
    /\ (pc[c] = "done" /\ ~reuse[c] /\ FirstExisting(SearchOrder) = "") =>
         (daemonPath[c] = "" /\ spawns[c] = 0)

\* Reached: with the variable set, the first candidate missing and later
\* ones present, the daemon was spawned from <AGENT_BROWSER_HOME>/daemon.js.
C16_Witness ==
  /\ homeSet /\ HomeDist \notin pathExists
  /\ {HomeRoot, ExeDir, CwdDist} \subseteq pathExists
  /\ spawns["c1"] = 1 /\ daemonPath["c1"] = HomeRoot

(***************************************************************************)
(* parse_proxy                                                             *)
(***************************************************************************)

\* str::find(pat): the position (from 1) of the first occurrence, 0 for None.
Find(s, pat) ==
  LET hits == {i \in 1 .. Len(s) - Len(pat) + 1 :
                 SubSeq(s, i, i + Len(pat) - 1) = pat}
  IN  IF hits = {} THEN 0 ELSE CHOOSE i \in hits : \A j \in hits : i <= j

\* A search for the first occurrence of the character.
RFindFirst(s, ch) ==
  LET hits == {i \in 1 .. Len(s) : s[i] = ch}
  IN  IF hits = {} THEN 0 ELSE CHOOSE i \in hits : \A j \in hits : i <= j

\* str::rfind(ch): the position (from 1) of the last occurrence, 0 for None.
RFind(s, ch) ==
  LET hits == {i \in 1 .. Len(s) : s[i] = ch}
  IN  IF hits = {} THEN 0 ELSE CHOOSE i \in hits : \A j \in hits : i >= j

SchemeMark == <<":", "/", "/">>

\* parse_proxy
ParseProxy(proxy_str) ==
  LET protocol_end == Find(proxy_str, SchemeMark)
      protocol == Slice(proxy_str, 1, protocol_end + 2)
      rest == Slice(proxy_str, protocol_end + 3, Len(proxy_str))
      at_pos == RFind(rest, "@")
      creds == Slice(rest, 1, at_pos - 1)
      server_part == Slice(rest, at_pos + 1, Len(rest))
      server == protocol \o server_part
      colon_pos == Find(creds, <<":">>)
  IN  IF protocol_end = 0 THEN ProxyNoAuth(proxy_str)
      ELSE IF at_pos = 0 THEN ProxyNoAuth(proxy_str)
      ELSE IF colon_pos = 0 THEN ProxyAuth(server, creds, <<>>)
      ELSE ProxyAuth(server, Slice(creds, 1, colon_pos - 1),
                     Slice(creds, colon_pos + 1, Len(creds)))

(***************************************************************************)
(* SpecProxy: parse_proxy on bounded proxy strings                         *)
(***************************************************************************)

\* Longest proxy string.
MaxProxyLen == 7

\* A letter and the three characters parse_proxy looks for.
ProxyAlphabet == {"h", ":", "/", "@"}

ProxyStrings == UNION {[1 .. n -> ProxyAlphabet] : n \in 0 .. MaxProxyLen}

InitProxy ==
  /\ proxyIn \in ProxyStrings
  /\ proxyPc = "idle"
  /\ proxyOut = ProxyNoAuth(<<>>)
  /\ platform = "unix"
  /\ tmpDir = [n \in ListFiles |-> NoFile]
  /\ readDirOk = TRUE
  /\ alive = {}
  /\ sockets = [k \in ProbeSessions |-> {}]
  /\ ports = [k \in PortsOf(ProbeSessions) |-> {}]
  /\ IdleList /\ IdleHost /\ IdleLife /\ IdlePort /\ IdleSend

\* One call of parse_proxy(proxyIn).
RunParseProxy ==
  /\ proxyPc = "idle"
  /\ proxyOut' = ParseProxy(proxyIn)
  /\ proxyPc' = "done"
  /\ UNCHANGED <<proxyIn, envVars, listVars, hostVars, lifeVars, portVars,
                 sendVars>>

NextProxy == RunParseProxy

SpecProxy == InitProxy /\ [][NextProxy]_vars

(***************************************************************************)
(* Claims about parse_proxy (SpecProxy)                                    *)
(***************************************************************************)

\* The positions of p at which "://" begins.
MarkPositions(p) ==
  {i \in 1 .. Len(p) - 2 : p[i] = ":" /\ p[i + 1] = "/" /\ p[i + 2] = "/"}

\* The positions of s that hold the character ch.
PositionsOf(s, ch) == {i \in 1 .. Len(s) : s[i] = ch}

\* out is what C17 describes for credentials cr: the username is the text
\* before the first ':' and the password the text after it; without a ':'
\* the username is all of cr and the password is empty.
CredentialsSplit(cr, out) ==
  IF PositionsOf(cr, ":") = {}
  THEN out.username = cr /\ out.password = <<>>
  ELSE \E c \in PositionsOf(cr, ":") :
         /\ \A m \in PositionsOf(cr, ":") : c <= m
         /\ out.username = [m \in 1 .. c - 1 |-> cr[m]]
         /\ out.password = [m \in 1 .. Len(cr) - c |-> cr[c + m]]

\* out is what C17 describes for the proxy string p.
ProxyAsDescribed(p, out) ==
  IF MarkPositions(p) = {}
  THEN out = [server |-> p, auth |-> FALSE, username |-> <<>>,
              password |-> <<>>]
  ELSE \E i \in MarkPositions(p) :
         /\ \A j \in MarkPositions(p) : i <= j
         /\ LET after == [m \in 1 .. Len(p) - (i + 2) |-> p[i + 2 + m]]
            IN  IF PositionsOf(after, "@") = {}
                THEN out = [server |-> p, auth |-> FALSE, username |-> <<>>,
                            password |-> <<>>]
                ELSE \E k \in PositionsOf(after, "@") :
                       /\ \A m \in PositionsOf(after, "@") : m <= k
                       /\ out.auth
                       /\ out.server =
                            [m \in 1 .. i + 2 |-> p[m]]
                              \o [m \in 1 .. Len(after) - k |-> after[k + m]]
                       /\ CredentialsSplit([m \in 1 .. k - 1 |-> after[m]], out)

\* C17: for every proxy string p, parse_proxy(p) is {server: p} with no
\* username and no password field when p has no "://" or the text after
\* "://" has no '@'; otherwise server is the scheme with "://" followed by
\* the text after the last '@', username is the credentials text before its
\* first ':' and password the text after that ':' (the empty string, with
\* the whole credentials as username, when there is no ':').
C17_ParseProxy ==
  proxyPc = "done" => ProxyAsDescribed(proxyIn, proxyOut)

\* Reached: a proxy string with two '@' after the scheme, whose password
\* holds the first of them.
C17_Witness ==
  /\ proxyPc = "done"
  /\ proxyIn = <<"h", ":", "/", "/", ":", "@", "@">>
  /\ proxyOut = [server |-> <<"h", ":", "/", "/">>, auth |-> TRUE,
                 username |-> <<>>, password |-> <<"@">>]

(***************************************************************************)
(* Claims about the spawn race (SpecRace)                                  *)
(***************************************************************************)

\* Both clients have made their call and both calls have returned.
BothReturned == \A c \in Clients : pc[c] = "done" /\ calls[c] = 1

\* C18: when two clients call ensure_daemon concurrently for the same
\* session with no daemon running, and a spawned daemon bound the listener
\* while a call had not yet returned (and holds it still), at least one
\* client has returned Ok, in every interleaving, including the one where
\* both clients spawn and the bind of the second daemon fails.
C18_OneClientSeesReadyDaemon ==
  (BothReturned
     /\ \E p \in Pids : daemons[p].state = "listening" /\ daemons[p].intime)
    => \E c \in Clients : result[c].kind = "ok"

\* Reached: both clients spawned, the bind of one daemon failed, the other
\* daemon listens, and both calls returned Ok with already_running = false.
C18_Witness ==
  /\ BothReturned
  /\ spawns["c1"] = 1 /\ spawns["c2"] = 1
  /\ \E p, q \in Pids :
       /\ daemons[p].state = "listening" /\ daemons[p].intime
       /\ daemons[q].state = "exited" /\ ~daemons[q].marked /\ q > 1
  /\ \A c \in Clients : result[c] = OkResult(FALSE)

(***************************************************************************)
(* SpecLive: one client's call, its steps taken whenever they can be       *)
(***************************************************************************)

\* The steps of the call and of the daemons, which may also end at any
\* time.
NextLive ==
  \/ NextRace
  \/ \E p \in Pids, clean \in BOOLEAN : DaemonExit(p, clean)

\* The client is a running sequential program: a step of its call that can
\* be taken is taken.  Nothing is assumed of the daemons.
ClientProgress ==
  \A c \in Clients :
    /\ WF_vars(Locate(c))
    /\ WF_vars(Spawn(c))
    /\ WF_vars(Poll(c))

SpecLive == Init /\ [][NextLive]_vars /\ ClientProgress

(***************************************************************************)
(* Claims about termination (SpecLive)                                     *)
(***************************************************************************)

\* C19: every ensure_daemon call eventually returns, with Ok or with an
\* error, whatever the daemon does; a daemon that never binds its listener
\* makes the call end with an error after the 50th failed probe.
C19_CallReturns ==
  \A c \in Clients :
    /\ (pc[c] \in {"locate", "spawn", "poll"}) ~>
         (pc[c] = "done" /\ result[c].kind \in {"ok", "err"})
    /\ [](result[c] = ErrResult(FailedToStartMsg) => probes[c] = PollAttempts)

\* Reached: the daemon the call spawned is alive and never bound its
\* listener, and the call returned the error after 50 failed probes.
C19_Witness ==
  /\ pc["c1"] = "done" /\ probes["c1"] = 50 /\ result["c1"].kind = "err"
  /\ \E p \in alive : daemons[p].by = "c1" /\ daemons[p].state = "starting"
  /\ Listeners = {}

(***************************************************************************)
(* SpecClient: one command run and one `session list`, with the daemons    *)
(***************************************************************************)

\* What the peer of the command's connection may do: answer, fail the
\* write, reset the connection, answer with text that is not JSON.
ClientPeers ==
  { [text |-> JsonText(JObj(<< <<"success", JTrue>> >>)), newline |-> TRUE,
     ending |-> "close", writeOk |-> TRUE],
    [text |-> JsonText(JObj(<< <<"success", JTrue>> >>)), newline |-> TRUE,
     ending |-> "close", writeOk |-> FALSE],
    [text |-> NoBytes, newline |-> FALSE, ending |-> "reset", writeOk |-> TRUE],
    [text |-> OtherText("garbage"), newline |-> TRUE, ending |-> "close",
     writeOk |-> TRUE] }

\* main.rs line 341: the command is sent once ensure_daemon has returned Ok.
SendAfterEnsure ==
  /\ pc["c1"] = "done" /\ result["c1"].kind = "ok"
  /\ sendCalls = 0
  /\ SendConnect(JObj(<< <<"id", JStr("r1")>>, <<"action", JStr("close")>> >>))
  /\ peer' \in ClientPeers \cup {NoPeer}

\* A command run (ensure_daemon, then send_command), a `session list` run
\* by another invocation, and the daemons.
NextClient ==
  \/ NextLive
  \/ SendAfterEnsure
  \/ SendWrite
  \/ SendRead
  \/ RunSessionList

SpecClient == Init /\ [][NextClient]_vars

(***************************************************************************)
(* Claims about the files the client touches (SpecClient)                  *)
(***************************************************************************)

\* What a client operation changes when it takes a step.
ClientState == <<pc, calls, probes, result, listVars, sendVars>>

\* The files of the temp directory with their contents, and the listeners
\* bound to the socket paths and ports.
MarkersAndSockets == <<tmpDir, sockets, ports>>

\* C20: no client operation (ensure_daemon, send_command, the session list
\* scan) creates, modifies or deletes a marker file or a socket file: every
\* client step, on success and on every error path, leaves the files and
\* their contents unchanged.
C20_ClientLeavesFiles ==
  [][ClientState' # ClientState => MarkersAndSockets' = MarkersAndSockets]_vars

\* Reached: ensure_daemon spawned a daemon and returned Ok, send_command
\* returned, the scan ran, and the marker the daemon wrote is in place.
C20_Witness ==
  /\ pc["c1"] = "done" /\ result["c1"] = OkResult(FALSE)
  /\ sendPc = "done" /\ sendCalls = 1
  /\ listPc = "done"
  /\ \E p \in alive : /\ daemons[p].by = "c1"
                       /\ tmpDir[GetPidPath(TheSession)] = MarkerOf(p)

(***************************************************************************)
(* Claims comparing the session list with the liveness probe (SpecList)    *)
(***************************************************************************)

\* C21: the session list uses the same liveness check as is_daemon_running:
\* for every non-empty session name s and every marker file content, s is
\* in the list returned by `session list` if and only if
\* is_daemon_running(s) is true.
C21_ListMatchesIsDaemonRunning ==
  \A s \in ProbeSessions :
    (s # <<>> /\ listPc = "done" /\ probe[s] # "none") =>
      (s \in listOut <=> probe[s] = "true")

(***************************************************************************)
(* Claims about the response line (SpecSend)                               *)
(***************************************************************************)

\* The current call read from a peer that wrote bytes without a newline
\* and then closed the connection.
PeerClosedMidLine ==
  /\ sendPc = "done" /\ readCount = 1
  /\ peer.text # NoBytes /\ ~peer.newline /\ peer.ending = "close"

\* C22: send_command deserializes a response only after it has read one
\* complete line up to and including the terminating newline: when the peer
\* sends bytes without a newline and then closes, send_command does not
\* return an Ok response.
C22_OkOnlyAfterNewline ==
  /\ sendResult.kind = "ok" => responseLine.newline
  /\ PeerClosedMidLine => sendResult.kind # "ok"

(***************************************************************************)
(* Claims about whose daemon answers the readiness probe (SpecRace)        *)
(***************************************************************************)

\* The poll loop of client c returns Ok with already_running = false in
\* this step.
ReturnsFreshOk(c) == pc[c] = "poll" /\ result'[c] = OkResult(FALSE)

\* C23: whenever ensure_daemon returns Ok with already_running = false, the
\* listener that answered its successful readiness probe belongs to the
\* daemon process that this call spawned, in every interleaving with other
\* clients and for every initial state.
C23_ProbeAnsweredByOwnDaemon ==
  [][\A c \in Clients :
       ReturnsFreshOk(c) => \A p \in Listeners : daemons[p].by = c]_vars

====
